---- MODULE Spec2Model ----
(***************************************************************************)
(* HARVEST: the recursive crawl engine of src/main.rs.                     *)
(*                                                                         *)
(* The crawl is a single-threaded depth-first recursion.  The call stack   *)
(* of unique_words_from_url_recursive is the variable `stack`; one frame   *)
(* is one page being processed.  The web (HTTP collaborator) and the       *)
(* common-word dictionary file are the environment.                        *)
(***************************************************************************)
EXTENDS Integers, Sequences, FiniteSets, TLC

VARIABLES
    pc,            \* position of main: "main" | "start" | "crawl" | "done" | "exit",
                   \* or "aborted" after std::process::exit(1)
    headers_arg,   \* the header strings main hands to headers_from_strings
    seed,          \* the url argument of unique_words_from_url (BadUrl = does not parse)
    config,        \* CrawlConfig, immutable during a crawl
    visited_urls,  \* HashSet<Url> owned by unique_words_from_url
    stack,         \* call stack of unique_words_from_url_recursive, top = last
    result,        \* return value of unique_words_from_url (None while running)
    requests,      \* history: every request handed to client.get(url).send(), with the
                   \* depth of the call and the page whose link led to it
    returned,      \* history: how every non-deduplicated call ended
    dictPresent,   \* environment: src/resources/commonwords.txt can be opened
    dictFile,      \* environment: the lines of the dictionary file
    report,        \* what main writes to the output file
    merge_test     \* the operands and results of merging frequency maps on their own

vars == << pc, headers_arg, seed, config, visited_urls, stack, result, requests,
           returned, dictPresent, dictFile, report, merge_test >>

-----------------------------------------------------------------------------
(* Bounds of the model *)

MaxDepthBound == 2     \* max_depth ranges over 0..MaxDepthBound
MaxLimit == 2          \* common_words_limit ranges over 0..MaxLimit
MaxMinLength == 4      \* min_length ranges over 3..MaxMinLength
MaxMinCount == 2       \* min_count ranges over 0..MaxMinCount
MaxCount == 2          \* the counts of merged maps range over 1..MaxCount

-----------------------------------------------------------------------------
(* Text: a word is a sequence of characters *)

Uppers == {"Q", "T"}
Lowers == {"a", "b", "c", "d", "e", "f", "h", "i", "j", "k", "m", "n",
           "o", "p", "q", "s", "t", "u", "x"}
Apostrophe == "'"

\* char::to_lowercase on the characters of the model's alphabet
LowerChar(c) ==
    CASE c = "Q" -> "q"
      [] c = "T" -> "t"
      [] OTHER -> c

\* str::to_lowercase (line 192)
to_lowercase(word) == [k \in 1..Len(word) |-> LowerChar(word[k])]

\* UTF-8 length in bytes of one character
Utf8Len(c) == IF c = "é" THEN 2 ELSE 1

RECURSIVE ByteLen(_)
\* String::len (line 197): the length in bytes
ByteLen(word) ==
    IF word = << >> THEN 0 ELSE Utf8Len(Head(word)) + ByteLen(Tail(word))

\* re.is_match for the regex [^a-zA-Z']+ (line 185)
re_is_match(word) ==
    \E k \in 1..Len(word) : word[k] \notin (Uppers \cup Lowers \cup {Apostrophe})

Quick == << "Q", "u", "i", "c", "k" >>
quick == << "q", "u", "i", "c", "k" >>
fox   == << "f", "o", "x" >>
jumps == << "j", "u", "m", "p", "s" >>
The   == << "T", "h", "e" >>
the   == << "t", "h", "e" >>
dont  == << "d", "o", "n", "'", "t" >>
b2b   == << "b", "2", "b" >>
cafe  == << "c", "a", "f", "é" >>
ox    == << "o", "x" >>

-----------------------------------------------------------------------------
(* URLs (reqwest::Url).  An Option<T> is a sequence of length 0 or 1. *)

IpHosts == {"10.0.0.1", "10.0.0.2"}
DomainHosts == {"a.com", "b.org"}

U(h, p, f) == [host |-> h, path |-> p, frag |-> f]

\* The strings that do not parse as an absolute URL
BadUrl == [host |-> "", path |-> "not a url", frag |-> ""]

\* Url::parse (line 224)
Url_parse(s) == IF s = BadUrl THEN << >> ELSE << s >>

\* Url::domain (line 102): the host when it is a domain name, None when the
\* host is an IP address
domain(url) == IF url.host \in IpHosts THEN << >> ELSE << url.host >>

\* The href attribute values of the model
HrefAbs(h, p)  == [kind |-> "abs", host |-> h, path |-> p, frag |-> ""]
HrefPath(p)    == [kind |-> "path", host |-> "", path |-> p, frag |-> ""]
HrefFrag(f)    == [kind |-> "frag", host |-> "", path |-> "", frag |-> f]
HrefBad        == [kind |-> "bad", host |-> "", path |-> "", frag |-> ""]

\* Url::join (line 98): resolve a reference against the base URL
join(base_url, href) ==
    CASE href.kind = "abs"  -> << U(href.host, href.path, href.frag) >>
      [] href.kind = "path" -> << U(base_url.host, href.path, "") >>
      [] href.kind = "frag" -> << U(base_url.host, base_url.path, href.frag) >>
      [] OTHER -> << >>

-----------------------------------------------------------------------------
(* Documents (select::document::Document): the nodes in document order;    *)
(* parent = 0 for a child of the root.  `words` is the text directly       *)
(* inside the element, already split at whitespace.                        *)

El(tag, parent, words, href) ==
    [tag |-> tag, parent |-> parent, words |-> words, href |-> href]

\* The tag names of the predicate `tags` (lines 138-166) that the model's
\* documents use
AllowedTags == {"p", "li", "em", "a"}

RECURSIVE IsDescendant(_, _, _)
\* node m lies strictly below node n
IsDescendant(doc, m, n) ==
    /\ doc[m].parent # 0
    /\ \/ doc[m].parent = n
       \/ IsDescendant(doc, doc[m].parent, n)

\* The node indices of a document, in document order
Nodes(doc) == [k \in 1..Len(doc) |-> k]

\* document.find(or_predicate) (line 172)
document_find(doc) ==
    LET Test(k) == doc[k].tag \in AllowedTags IN SelectSeq(Nodes(doc), Test)

\* node.find(link_predicate) (line 204): the descendants of the node, not
\* the node itself, that carry an href attribute
node_find(doc, n) ==
    LET Test(k) == IsDescendant(doc, k, n) /\ doc[k].href # << >>
    IN SelectSeq(Nodes(doc), Test)

RECURSIVE ConcatWords(_, _, _)
ConcatWords(doc, n, k) ==
    IF k > Len(doc) THEN << >>
    ELSE (IF k = n \/ IsDescendant(doc, k, n) THEN doc[k].words ELSE << >>)
         \o ConcatWords(doc, n, k + 1)

\* node.text() followed by split_whitespace (lines 188-191): the words of
\* the element and of everything below it
node_text(doc, n) == ConcatWords(doc, n, 1)

-----------------------------------------------------------------------------
(* The web: what the HTTP collaborator answers for a URL.  The fragment is *)
(* not part of the request, so the answer depends on host and path only.   *)

NoHref == << >>
ToPath(p) == << HrefPath(p) >>
ToAbs(h, p) == << HrefAbs(h, p) >>

HubDoc ==
    << El("div", 0, << The >>, NoHref),
       El("p",   1, << The, dont, b2b >>, NoHref),
       El("a",   2, << fox >>, ToPath("/b")),
       El("a",   2, << >>, ToAbs("b.org", "/")),
       El("a",   2, << >>, ToPath("/c")),
       El("a",   0, << ox >>, ToPath("/hidden")),
       El("p",   0, << cafe >>, NoHref),
       El("a",   7, << >>, << HrefFrag("top") >>),
       El("a",   7, << >>, << HrefBad >>),
       El("a",   7, << >>, ToPath("/")) >>

BDoc ==
    << El("p",  0, << jumps, fox >>, NoHref),
       El("a",  1, << >>, ToPath("/")),
       El("a",  1, << >>, ToPath("/c")),
       El("a",  1, << >>, ToPath("/down")),
       El("li", 0, << the, the >>, NoHref),
       El("a",  5, << >>, ToPath("/t")),
       El("a",  5, << >>, ToPath("/down")) >>

CDoc == << El("p", 0, << the, Quick >>, NoHref), El("a", 1, << >>, ToPath("/d")) >>
DDoc == << El("p", 0, << jumps >>, NoHref) >>
HiddenDoc == << El("p", 0, << ox, Quick >>, NoHref) >>
SDoc == << El("p", 0, << Quick, Quick, fox >>, NoHref), El("a", 1, << >>, ToPath("/t")) >>
TDoc == << El("p", 0, << fox, jumps >>, NoHref) >>
LoopDoc == << El("p", 0, << Quick >>, NoHref), El("a", 1, << >>, ToPath("/loop")) >>
OrgDoc ==
    << El("p", 0, << fox >>, NoHref),
       El("a", 1, << >>, ToAbs("a.com", "/t")),
       El("a", 1, << >>, ToPath("/x")) >>
Ip1Doc ==
    << El("p", 0, << Quick >>, NoHref),
       El("a", 1, << >>, ToAbs("10.0.0.2", "/")),
       El("a", 1, << >>, ToAbs("a.com", "/d")) >>
Ip2Doc == << El("p", 0, << fox >>, NoHref) >>

\* Four pages that all answer, on one host: /o1 links to /o2 before /o3,
\* /o2 links to /o3, and /o3 links to /o4
O1Doc ==
    << El("p", 0, << fox >>, NoHref),
       El("a", 1, << >>, ToPath("/o2")),
       El("a", 1, << >>, ToPath("/o3")) >>
O2Doc == << El("p", 0, << >>, NoHref), El("a", 1, << >>, ToPath("/o3")) >>
O3Doc == << El("p", 0, << >>, NoHref), El("a", 1, << >>, ToPath("/o4")) >>
O4Doc == << El("p", 0, << jumps >>, NoHref) >>

\* sent: send() returned a response; readable: the body could be read
Response(status, doc) == [sent |-> TRUE, status |-> status, readable |-> TRUE, doc |-> doc]
NetworkError == [sent |-> FALSE, status |-> 0, readable |-> FALSE, doc |-> << >>]
BrokenBody == [sent |-> TRUE, status |-> 200, readable |-> FALSE, doc |-> << >>]

\* The answer of the web to a request for the url
Fetch(url) ==
    LET hp == << url.host, url.path >> IN
    CASE hp = << "a.com", "/" >>       -> Response(200, HubDoc)
      [] hp = << "a.com", "/b" >>      -> Response(200, BDoc)
      [] hp = << "a.com", "/c" >>      -> Response(404, CDoc)
      [] hp = << "a.com", "/d" >>      -> Response(200, DDoc)
      [] hp = << "a.com", "/hidden" >> -> Response(200, HiddenDoc)
      [] hp = << "a.com", "/s" >>      -> Response(200, SDoc)
      [] hp = << "a.com", "/t" >>      -> Response(200, TDoc)
      [] hp = << "a.com", "/loop" >>   -> Response(200, LoopDoc)
      [] hp = << "a.com", "/down" >>   -> NetworkError
      [] hp = << "b.org", "/" >>       -> Response(200, OrgDoc)
      [] hp = << "b.org", "/x" >>      -> BrokenBody
      [] hp = << "10.0.0.1", "/" >>    -> Response(200, Ip1Doc)
      [] hp = << "10.0.0.2", "/" >>    -> Response(200, Ip2Doc)
      [] hp = << "a.com", "/o1" >>     -> Response(200, O1Doc)
      [] hp = << "a.com", "/o2" >>     -> Response(200, O2Doc)
      [] hp = << "a.com", "/o3" >>     -> Response(200, O3Doc)
      [] hp = << "a.com", "/o4" >>     -> Response(200, O4Doc)
      [] OTHER -> Response(404, << >>)

\* The url arguments the crawl is started with
Seeds ==
    { U("a.com", "/", ""), U("a.com", "/s", ""), U("a.com", "/loop", ""),
      U("a.com", "/c", ""), U("a.com", "/down", ""), U("b.org", "/", ""),
      U("10.0.0.1", "/", ""), U("a.com", "/o1", ""), BadUrl }

-----------------------------------------------------------------------------
(* Word frequencies: HashMap<String, u32> as a function on its keys *)

EmptyMap == [w \in {} |-> 0]

Count(m, w) == IF w \in DOMAIN m THEN m[w] ELSE 0

\* *word_count.entry(word).or_insert(0) += count (lines 107, 199)
AddCount(m, w, c) ==
    [x \in DOMAIN m \cup {w} |-> Count(m, x) + (IF x = w THEN c ELSE 0)]

\* Mutant: the count of the new map replaces the count already there
Merge_overwrites(word_count, new_word_count) ==
    [x \in DOMAIN word_count \cup DOMAIN new_word_count |->
        IF x \in DOMAIN new_word_count THEN new_word_count[x] ELSE word_count[x]]

\* for (word, count) in new_word_count { ... } (lines 106-108)
Merge(word_count, new_word_count) ==
    [x \in DOMAIN word_count \cup DOMAIN new_word_count |->
        Count(word_count, x) + Count(new_word_count, x)]

\* Mutant: the common-word test is left out
Accepted_ignores_common(cleaned_word, common_words, min_length) ==
    /\ ~ re_is_match(cleaned_word)
    /\ cleaned_word # << >>
    /\ ByteLen(cleaned_word) >= min_length

\* The condition of lines 194-197 on the lowercased word
Accepted(cleaned_word, common_words, min_length) ==
    /\ ~ re_is_match(cleaned_word)
    /\ cleaned_word # << >>
    /\ cleaned_word \notin common_words
    /\ ByteLen(cleaned_word) >= min_length

RECURSIVE CountWords(_, _, _, _)
\* for word in text.split_whitespace() { ... } (lines 191-201)
CountWords(word_count, words, common_words, min_length) ==
    IF words = << >> THEN word_count
    ELSE LET cleaned_word == to_lowercase(Head(words))
             counted == IF Accepted(cleaned_word, common_words, min_length)
                        THEN AddCount(word_count, cleaned_word, 1)
                        ELSE word_count
         IN CountWords(counted, Tail(words), common_words, min_length)

-----------------------------------------------------------------------------
(* The common-word dictionary: a line is << word >>, or << >> when reading *)
(* it fails (for instance a line that is not valid UTF-8)                  *)

DictFiles ==
    { << >>,
      << << the >>, << fox >>, << jumps >> >>,
      << << >>, << the >>, << quick >> >> }

Min(a, b) == IF a < b THEN a ELSE b

\* lines().take(limit).filter_map(Result::ok).collect() (lines 179-183)
load_common_words(file, limit) ==
    { file[k][1] : k \in { n \in 1..Min(limit, Len(file)) : file[n] # << >> } }

-----------------------------------------------------------------------------
(* Request headers: a HeaderMap is a set of << name, value >> pairs; names, *)
(* values and header strings are sequences of characters                   *)

LF == "<LF>"
Whitespace == {" ", LF}

\* HeaderValue::from_str succeeds (lines 80, 127): no control character
HeaderValue_ok(v) == \A k \in 1..Len(v) : v[k] # LF

\* HeaderName::from_str succeeds (line 79): a non-empty token
HeaderName_ok(n) ==
    /\ n # << >>
    /\ \A k \in 1..Len(n) : n[k] \notin Whitespace \cup {":"}

RECURSIVE trim_start(_)
trim_start(str) ==
    IF str # << >> /\ Head(str) \in Whitespace THEN trim_start(Tail(str)) ELSE str

RECURSIVE trim_end(_)
trim_end(str) ==
    IF str # << >> /\ str[Len(str)] \in Whitespace
    THEN trim_end(SubSeq(str, 1, Len(str) - 1)) ELSE str

\* str::trim (lines 77-78)
trim(str) == trim_end(trim_start(str))

\* header.splitn(2, ':') (line 75): split at the first colon, if any
splitn2(header) ==
    LET colons == { k \in 1..Len(header) : header[k] = ":" } IN
    IF colons = {} THEN << header >>
    ELSE LET c == CHOOSE k \in colons : \A m \in colons : k <= m
         IN << SubSeq(header, 1, c - 1), SubSeq(header, c + 1, Len(header)) >>

\* header_map.insert(header_name, header_value) (line 81)
header_insert(header_map, name, value) ==
    { h \in header_map : h[1] # name } \cup { << name, value >> }

\* Mutant: a string without a colon is skipped
header_step_skips(header_map, header) ==
    LET parts == splitn2(header) IN
    IF Len(parts) = 2
    THEN LET name == trim(parts[1])
             value == trim(parts[2])
         IN IF HeaderName_ok(name) /\ HeaderValue_ok(value)
            THEN [ok |-> TRUE, map |-> header_insert(header_map, name, value)]
            ELSE [ok |-> FALSE, map |-> {}]
    ELSE [ok |-> TRUE, map |-> header_map]

\* One iteration of the loop of headers_from_strings (lines 75-84)
header_step(header_map, header) ==
    LET parts == splitn2(header) IN
    IF Len(parts) = 2
    THEN LET name == trim(parts[1])
             value == trim(parts[2])
         IN IF HeaderName_ok(name) /\ HeaderValue_ok(value)
            THEN [ok |-> TRUE, map |-> header_insert(header_map, name, value)]
            ELSE [ok |-> FALSE, map |-> {}]
    ELSE [ok |-> FALSE, map |-> {}]

RECURSIVE headers_loop(_, _)
headers_loop(header_map, headers) ==
    IF headers = << >> THEN [ok |-> TRUE, map |-> header_map]
    ELSE LET r == header_step(header_map, Head(headers)) IN
         IF r.ok THEN headers_loop(r.map, Tail(headers)) ELSE r

\* headers_from_strings (lines 72-87)
headers_from_strings(headers) == headers_loop({}, headers)

HdrOk        == << "a", ":", " ", "v" >>
HdrTwoColons == << "a", ":", "v", ":", "w" >>
HdrPadded    == << " ", "b", " ", ":", " ", "v", LF >>
HdrNoColon   == << "a", "v" >>
HdrBadName   == << "a", " ", "b", ":", "v" >>
HdrBadValue  == << "a", ":", "v", LF, "w" >>
HdrEmptyName == << ":", "v" >>

\* The lists of header strings main is run with
HeaderArgs ==
    { << >>, << HdrOk, HdrTwoColons >>, << HdrOk, HdrPadded >>,
      << HdrNoColon >>, << HdrOk, HdrBadName >>, << HdrBadValue, HdrOk >>,
      << HdrEmptyName >> }

USER_AGENT == << "u", "s", "e", "r", "-", "a", "g", "e", "n", "t" >>

UserAgents == { << >>, << << "E", "d", "g" >> >>, << << "E", LF, "g" >> >> }

\* Client::builder().default_headers(config.headers.clone()) and
\* client.get(url.as_str()) (lines 130-134): req_headers is not passed on
request_headers(cfg) == cfg.headers

-----------------------------------------------------------------------------
(* The crawl *)

NoResult == [kind |-> "none", word_count |-> EmptyMap]
Ok(word_count) == [kind |-> "ok", word_count |-> word_count]
Err == [kind |-> "err", word_count |-> EmptyMap]

Top == stack[Len(stack)]
SetTop(stk, f) == [stk EXCEPT ![Len(stk)] = f]

\* Mutant: the visited set is never consulted
AlreadyVisited_never(url, visited) == FALSE

\* !visited_urls.insert(url.clone()) (line 121): the test ...
AlreadyVisited(url, visited) == url \in visited

\* Mutant: the url is tested but not recorded
InsertVisited_forgets(url, visited) == visited

\* ... and the insertion
InsertVisited(url, visited) == visited \cup {url}

\* How a call unique_words_from_url_recursive(url, ..) proceeds up to the
\* loop over the elements (lines 121-185)
CallOutcome(url) ==
    IF AlreadyVisited(url, visited_urls) THEN "dup"
    ELSE IF config.user_agent # << >> /\ ~ HeaderValue_ok(config.user_agent[1])
         THEN "err_agent"
    ELSE IF ~ Fetch(url).sent THEN "err_send"
    ELSE IF ~ Fetch(url).readable THEN "err_read"
    ELSE IF ~ dictPresent THEN "err_dict"
    ELSE "run"

CallErrors == {"err_agent", "err_send", "err_read", "err_dict"}

\* The frame of a call that reached the loop of line 187
NewFrame(url, depth) ==
    [url |-> url, depth |-> depth, doc |-> Fetch(url).doc,
     elements |-> document_find(Fetch(url).doc),
     common_words |-> load_common_words(dictFile, config.common_words_limit),
     i |-> 1, j |-> 0, word_count |-> EmptyMap]

\* The effect of lines 121-136 on the visited set and on the network
CallEffects(url, depth, base_url) ==
    LET how == CallOutcome(url) IN
    /\ visited_urls' = IF how = "dup" THEN visited_urls
                       ELSE InsertVisited(url, visited_urls)
    /\ requests' = IF how \in {"dup", "err_agent"} THEN requests
                   ELSE Append(requests, [url |-> url, depth |-> depth,
                                          base_url |-> base_url,
                                          headers |-> request_headers(config)])
    /\ returned' = IF how \in CallErrors
                   THEN returned \cup {[url |-> url, depth |-> depth, how |-> how]}
                   ELSE returned

\* Mutant: the depth test lets one more level through
WithinDepth_one_more(depth, max_depth) == depth <= max_depth + 1

\* depth <= config.max_depth (lines 97 and 203)
WithinDepth(depth, max_depth) == depth <= max_depth

\* Mutant: every href is resolved against the seed URL
link_base_is_seed(f) == seed

\* The base_url process_node resolves and compares against: the `url` of the
\* page being processed (line 207)
link_base(f) == f.url

\* The links of the element the frame is at
FrameLinks(f) == node_find(f.doc, f.elements[f.i])

\* Move on to the next link of the element, or to the next element
Advance(f) ==
    IF f.j < Len(FrameLinks(f)) THEN [f EXCEPT !.j = f.j + 1]
    ELSE [f EXCEPT !.i = f.i + 1, !.j = 0]

\* The scope policy (line 102)
InScope(url, base_url) ==
    config.follow_offsite \/ domain(url) = domain(base_url)

\* Mutant: the error of the recursive call is propagated with `?` through
\* every caller
AfterChildError_propagates(stk) ==
    [stack |-> << >>, result |-> Err, pc |-> "done"]

\* What process_node makes of a failed recursive call (lines 103-109): the
\* `if let Ok(..)` drops the error and the caller's loop goes on
AfterChildError(stk) ==
    [stack |-> SetTop(stk, Advance(stk[Len(stk)])), result |-> NoResult, pc |-> "crawl"]

\* main up to the construction of the CrawlConfig (lines 281-304)
Startup ==
    /\ pc = "main"
    /\ \E headers \in HeaderArgs :
          /\ headers_arg' = headers
          /\ IF headers_from_strings(headers).ok
             THEN /\ config' = [config EXCEPT !.headers = headers_from_strings(headers).map]
                  /\ pc' = "start"
             ELSE /\ config' = config
                  /\ pc' = "aborted"
    /\ UNCHANGED << seed, visited_urls, stack, result, requests, returned,
                    dictPresent, dictFile, report >>
    /\ UNCHANGED merge_test

\* unique_words_from_url (lines 220-227) up to the loop of the seed's call
Crawl ==
    /\ pc = "start"
    /\ IF Url_parse(seed) = << >>
       THEN /\ pc' = "done"
            /\ result' = Err
            /\ UNCHANGED << visited_urls, stack, requests, returned >>
       ELSE LET url == Url_parse(seed)[1] IN
            /\ CallEffects(url, 0, << >>)
            /\ IF CallOutcome(url) = "run"
               THEN /\ stack' = << NewFrame(url, 0) >>
                    /\ pc' = "crawl"
                    /\ result' = NoResult
               ELSE /\ stack' = << >>
                    /\ pc' = "done"
                    /\ result' = IF CallOutcome(url) = "dup" THEN Ok(EmptyMap) ELSE Err
    /\ UNCHANGED << headers_arg, seed, config, dictPresent, dictFile, report >>
    /\ UNCHANGED merge_test

\* One iteration of the loop of line 187 up to its links: count the words
\* of the element (lines 188-201), then test the depth (line 203)
CountElement ==
    /\ pc = "crawl"
    /\ Top.i <= Len(Top.elements)
    /\ Top.j = 0
    /\ LET f == Top
           counted == [f EXCEPT !.word_count =
                          CountWords(f.word_count, node_text(f.doc, f.elements[f.i]),
                                     f.common_words, config.min_length)]
       IN stack' = SetTop(stack,
                     IF WithinDepth(f.depth, config.max_depth) THEN Advance(counted)
                     ELSE [counted EXCEPT !.i = f.i + 1])
    /\ UNCHANGED << pc, headers_arg, seed, config, visited_urls, result, requests,
                    returned, dictPresent, dictFile, report >>
    /\ UNCHANGED merge_test

\* process_node for one link of the element (lines 89-113), with the call
\* it makes up to the loop of the new frame
ProcessLink ==
    /\ pc = "crawl"
    /\ Top.i <= Len(Top.elements)
    /\ Top.j >= 1
    /\ LET f == Top
           href == f.doc[FrameLinks(f)[f.j]].href[1]
           link == IF WithinDepth(f.depth, config.max_depth)
                   THEN join(link_base(f), href) ELSE << >>
       IN IF link # << >> /\ InScope(link[1], link_base(f))
          THEN LET url == link[1]
                   how == CallOutcome(url)
               IN /\ CallEffects(url, f.depth + 1, << link_base(f) >>)
                  /\ CASE how = "run" ->
                            /\ stack' = Append(stack, NewFrame(url, f.depth + 1))
                            /\ UNCHANGED << pc, result >>
                       [] how = "dup" ->
                            /\ stack' = SetTop(stack, Advance(f))
                            /\ UNCHANGED << pc, result >>
                       [] OTHER ->
                            /\ stack' = AfterChildError(stack).stack
                            /\ result' = AfterChildError(stack).result
                            /\ pc' = AfterChildError(stack).pc
          ELSE /\ stack' = SetTop(stack, Advance(f))
               /\ UNCHANGED << pc, visited_urls, result, requests, returned >>
    /\ UNCHANGED << headers_arg, seed, config, dictPresent, dictFile, report >>
    /\ UNCHANGED merge_test

\* The loop of line 187 is over: Ok(word_count) (line 217) goes to the
\* caller, which is process_node (lines 106-108) or unique_words_from_url
Return ==
    /\ pc = "crawl"
    /\ Top.i > Len(Top.elements)
    /\ returned' = returned \cup
                     {[url |-> Top.url, depth |-> Top.depth, how |-> "ok"]}
    /\ IF Len(stack) = 1
       THEN /\ stack' = << >>
            /\ result' = Ok(Top.word_count)
            /\ pc' = "done"
       ELSE LET parent == stack[Len(stack) - 1]
                merged == [parent EXCEPT !.word_count =
                              Merge(parent.word_count, Top.word_count)]
            IN /\ stack' = SetTop(SubSeq(stack, 1, Len(stack) - 1), Advance(merged))
               /\ UNCHANGED << pc, result >>
    /\ UNCHANGED << headers_arg, seed, config, visited_urls, requests, dictPresent,
                    dictFile, report >>
    /\ UNCHANGED merge_test

\* Environment: the dictionary file disappears while the crawl runs
DictionaryRemoved ==
    /\ pc = "crawl"
    /\ dictPresent
    /\ dictPresent' = FALSE
    /\ UNCHANGED << pc, headers_arg, seed, config, visited_urls, stack, result,
                    requests, returned, dictFile, report >>
    /\ UNCHANGED merge_test

-----------------------------------------------------------------------------
(* The report (lines 306-327) *)

NoReport == [written |-> FALSE, min_count |-> 0, lines |-> << >>]

RECURSIVE Orders(_)
\* word_count.iter() (line 310): a HashMap yields its entries in any order
Orders(keys) ==
    IF keys = {} THEN { << >> }
    ELSE UNION { { << w >> \o rest : rest \in Orders(keys \ {w}) } : w \in keys }

\* Mutant: the comparison of line 311 with its operands swapped
comes_before_ascending(a, b) == a.count < b.count

\* b.1.cmp(a.1) is Less (line 311): the pair a sorts before the pair b
comes_before(a, b) == a.count > b.count

RECURSIVE sort_insert(_, _)
\* Place a pair behind the pairs that do not sort after it
sort_insert(sorted, pair) ==
    IF sorted = << >> THEN << pair >>
    ELSE IF comes_before(pair, Head(sorted)) THEN << pair >> \o sorted
    ELSE << Head(sorted) >> \o sort_insert(Tail(sorted), pair)

RECURSIVE sort_by(_, _)
\* sorted_word_count.sort_by(..) (line 311): a stable sort, here by
\* insertion of the first n pairs one after the other
sort_by(pairs, n) ==
    IF n = 0 THEN << >> ELSE sort_insert(sort_by(pairs, n - 1), pairs[n])

\* .filter(|(_, &count)| count >= min_count) (lines 313-316)
filter_min_count(pairs, min_count) ==
    LET Keep(pair) == pair.count >= min_count IN SelectSeq(pairs, Keep)

\* The lines written for the word counts iterated in the given order
report_lines(word_count, order, min_count) ==
    LET pairs == [k \in 1..Len(order) |->
                    [word |-> order[k], count |-> word_count[order[k]]]]
    IN filter_min_count(sort_by(pairs, Len(pairs)), min_count)

\* main after unique_words_from_url has returned (lines 306-327)
WriteReport ==
    /\ pc = "done"
    /\ pc' = "exit"
    /\ IF result.kind = "ok"
       THEN \E min_count \in 0..MaxMinCount :
              \E order \in Orders(DOMAIN result.word_count) :
                 report' = [written |-> TRUE, min_count |-> min_count,
                            lines |-> report_lines(result.word_count, order, min_count)]
       ELSE report' = report
    /\ UNCHANGED << headers_arg, seed, config, visited_urls, stack, result,
                    requests, returned, dictPresent, dictFile >>
    /\ UNCHANGED merge_test

Configs ==
    [max_depth : 0..MaxDepthBound,
     common_words_limit : 0..MaxLimit,
     follow_offsite : BOOLEAN,
     min_length : 3..MaxMinLength,
     user_agent : UserAgents,
     headers : { {} }]

NoMerge == [stage |-> 0, a |-> EmptyMap, b |-> EmptyMap, c |-> EmptyMap,
            ab |-> EmptyMap, ba |-> EmptyMap, ab_c |-> EmptyMap, a_bc |-> EmptyMap]

Init ==
    /\ pc = "main"
    /\ merge_test = NoMerge
    /\ headers_arg = << >>
    /\ report = NoReport
    /\ seed \in Seeds
    /\ config \in Configs
    /\ visited_urls = {}
    /\ stack = << >>
    /\ result = NoResult
    /\ requests = << >>
    /\ returned = {}
    /\ dictPresent \in BOOLEAN
    /\ dictFile \in DictFiles

-----------------------------------------------------------------------------
(* Merging frequency maps on their own *)

MergeTokens == {fox, jumps}

\* The maps over the tokens with counts 1..MaxCount
MergeMaps == UNION { [keys -> 1..MaxCount] : keys \in SUBSET MergeTokens }

MergeInit ==
    /\ pc = "merge"
    /\ headers_arg = << >>
    /\ report = NoReport
    /\ seed = BadUrl
    /\ config \in { cfg \in Configs : /\ cfg.max_depth = 0
                                      /\ cfg.common_words_limit = 0
                                      /\ ~ cfg.follow_offsite
                                      /\ cfg.min_length = 3
                                      /\ cfg.user_agent = << >> }
    /\ visited_urls = {}
    /\ stack = << >>
    /\ result = NoResult
    /\ requests = << >>
    /\ returned = {}
    /\ dictPresent = TRUE
    /\ dictFile = << >>
    /\ \E a \in MergeMaps : \E b \in MergeMaps : \E c \in MergeMaps :
          merge_test = [NoMerge EXCEPT !.a = a, !.b = b, !.c = c]

\* Two maps merged in both orders (lines 106-108)
MergeTwo ==
    /\ pc = "merge"
    /\ merge_test.stage = 0
    /\ merge_test' = [merge_test EXCEPT !.stage = 1,
                                        !.ab = Merge(merge_test.a, merge_test.b),
                                        !.ba = Merge(merge_test.b, merge_test.a)]
    /\ UNCHANGED << pc, headers_arg, seed, config, visited_urls, stack, result,
                    requests, returned, dictPresent, dictFile, report >>

\* Three maps merged in both groupings (lines 106-108)
MergeThree ==
    /\ pc = "merge"
    /\ merge_test.stage = 1
    /\ merge_test' = [merge_test EXCEPT
                         !.stage = 2,
                         !.ab_c = Merge(merge_test.ab, merge_test.c),
                         !.a_bc = Merge(merge_test.a, Merge(merge_test.b, merge_test.c))]
    /\ UNCHANGED << pc, headers_arg, seed, config, visited_urls, stack, result,
                    requests, returned, dictPresent, dictFile, report >>

MergeNext == MergeTwo \/ MergeThree

MergeSpec == MergeInit /\ [][MergeNext]_vars

-----------------------------------------------------------------------------

Step == Startup \/ Crawl \/ CountElement \/ ProcessLink \/ Return \/ WriteReport

Next == Step \/ DictionaryRemoved

Spec == Init /\ [][Next]_vars

\* The configurations of the termination check: the dictionary's contents
\* and the minimum word length do not steer the traversal and are fixed
LiveInit ==
    /\ Init
    /\ config.common_words_limit = MaxLimit
    /\ config.min_length = 3
    /\ dictFile = << << the >>, << fox >>, << jumps >> >>

\* The crawl is one sequential thread: it takes its next step whenever it
\* has one
LiveSpec == LiveInit /\ [][Next]_vars /\ WF_vars(Step)

-----------------------------------------------------------------------------
(* Definitions used to state the properties *)

Done == pc = "done"

Hub == U("a.com", "/", "")
PageB == U("a.com", "/b", "")
PageC == U("a.com", "/c", "")
PageDown == U("a.com", "/down", "")
PageS == U("a.com", "/s", "")
PageT == U("a.com", "/t", "")
PageLoop == U("a.com", "/loop", "")

\* The requests sent for the url
RequestsFor(url) == { k \in 1..Len(requests) : requests[k].url = url }

\* The common-word set of this crawl when the dictionary can be loaded
CommonWordSet == load_common_words(dictFile, config.common_words_limit)

RECURSIVE PageCountFrom(_, _, _)
PageCountFrom(doc, elements, k) ==
    IF k > Len(elements) THEN EmptyMap
    ELSE Merge(CountWords(EmptyMap, node_text(doc, elements[k]),
                          CommonWordSet, config.min_length),
               PageCountFrom(doc, elements, k + 1))

\* The page's own counts: what the loop of lines 187-201 counts on the page
\* of the url, links aside
PageCount(url) == PageCountFrom(Fetch(url).doc, document_find(Fetch(url).doc), 1)

RECURSIVE SumPages(_)
\* The per-token sum of the own counts of a sequence of urls
SumPages(urls) ==
    IF urls = << >> THEN EmptyMap
    ELSE Merge(PageCount(Head(urls)), SumPages(Tail(urls)))

RECURSIVE SetToSeq(_)
SetToSeq(S) ==
    IF S = {} THEN << >>
    ELSE LET x == CHOOSE x \in S : TRUE IN << x >> \o SetToSeq(S \ {x})

\* The urls whose call returned Ok(word_count) from line 217
OkUrls == { r.url : r \in { q \in returned : q.how = "ok" } }

\* All resolved links of the page of the url that process_node is called for
PageLinks(url) ==
    LET doc == Fetch(url).doc IN
    { join(url, doc[n].href[1]) :
        n \in UNION { { node_find(doc, e)[k] : k \in 1..Len(node_find(doc, e)) } :
                      e \in { document_find(doc)[k] : k \in 1..Len(document_find(doc)) } } }

\* The seed page links to itself
SelfLoop == seed # BadUrl /\ << seed >> \in PageLinks(seed)

-----------------------------------------------------------------------------
(* C1 *)

\* C1: in one crawl a fetch of a URL is attempted at most once, whether the
\* first fetch succeeded or failed, and a URL is in the visited set before
\* it is fetched.
C1_FetchAtMostOnce ==
    /\ \A k \in 1..Len(requests) :
          /\ requests[k].url \in visited_urls
          /\ RequestsFor(requests[k].url) = {k}
    /\ \A r \in returned : r.how \in {"err_send", "err_read"} =>
          Cardinality(RequestsFor(r.url)) = 1

\* /down failed when /b first linked to it, and /b went through all its
\* links, the second link to /down included
C1_Witness ==
    /\ Done
    /\ \E r \in returned : r.url = PageDown /\ r.how = "err_send"
    /\ \E r \in returned : r.url = PageB /\ r.how = "ok"

-----------------------------------------------------------------------------
(* C2 *)

\* C2 (self-loop part): when the seed links to itself and the crawl returns
\* Ok, the seed was fetched once and the aggregate holds the tokens of every
\* page that was processed once each, those of the seed included.
C2_SelfLoopOnce ==
    (Done /\ result.kind = "ok" /\ SelfLoop) =>
        /\ Cardinality(RequestsFor(seed)) = 1
        /\ seed \in OkUrls
        /\ result.word_count = SumPages(SetToSeq(OkUrls))
        /\ (PageLinks(seed) = { << seed >> } => result.word_count = PageCount(seed))

\* C2: for every link graph, cycles and self-loops included, and every
\* max_depth the crawl, once started, terminates; in the self-loop case the seed is fetched
\* once and its tokens are counted once.
C2_Terminates == (pc = "start" ~> Done) /\ []C2_SelfLoopOnce

\* A crawl of the page that only links to itself has returned its counts
C2_Witness ==
    /\ Done
    /\ result.kind = "ok"
    /\ seed = PageLoop
    /\ quick \in DOMAIN result.word_count
    /\ result.word_count[quick] = 1

-----------------------------------------------------------------------------
(* C3 *)

\* C3: with max_depth = 0 only the seed page is fetched.
C3_DepthZeroSeedOnly ==
    config.max_depth = 0 => \A k \in 1..Len(requests) : requests[k].url = seed

-----------------------------------------------------------------------------
(* C4 *)

\* The link leaves the site of the page that contains it
Offsite(url, base_url) == url.host # base_url.host

\* C4: with follow_offsite = false no link to another host than that of the
\* page containing it is fetched, IP-address hosts included; with
\* follow_offsite = true every link of a page at depth <= max_depth is
\* fetched unless it was visited before.
C4_OffsiteScope ==
    /\ ~ config.follow_offsite =>
          \A k \in 1..Len(requests) :
              requests[k].base_url # << >> =>
                  ~ Offsite(requests[k].url, requests[k].base_url[1])
    /\ (config.follow_offsite /\ Done) =>
          \A r \in returned :
              (r.how = "ok" /\ r.depth <= config.max_depth) =>
                  \A l \in PageLinks(r.url) : l # << >> => RequestsFor(l[1]) # {}

-----------------------------------------------------------------------------
(* C5 *)

RECURSIVE FetchedUrls(_)
\* The urls of the first k requests that were answered with a readable page
FetchedUrls(k) ==
    IF k = 0 THEN << >>
    ELSE FetchedUrls(k - 1) \o
         (IF Fetch(requests[k].url).sent /\ Fetch(requests[k].url).readable
          THEN << requests[k].url >> ELSE << >>)

\* The count of the token over all maps of the running crawl
RECURSIVE StackCount(_, _)
StackCount(k, w) ==
    IF k = 0 THEN 0 ELSE Count(stack[k].word_count, w) + StackCount(k - 1, w)

RECURSIVE StackCountNext(_, _)
StackCountNext(k, w) ==
    IF k = 0 THEN 0 ELSE Count(stack'[k].word_count, w) + StackCountNext(k - 1, w)

C5_NoDecrease ==
    \A n \in 1..Len(stack) : \A w \in DOMAIN stack[n].word_count :
        StackCountNext(Len(stack'), w) + Count(result'.word_count, w)
            >= StackCount(Len(stack), w) + Count(result.word_count, w)

C5_Sum ==
    (Done /\ result.kind = "ok") =>
        /\ result.word_count = SumPages(FetchedUrls(Len(requests)))
        /\ (/\ seed = PageS
            /\ CommonWordSet = {}
            /\ config.min_length = 3
            /\ config.max_depth = 1)
           => result.word_count = [w \in {quick, fox, jumps} |->
                                      IF w = jumps THEN 1 ELSE 2]

\* C5: when the crawl returns Ok the aggregate is the per-token sum of the
\* own counts of every successfully fetched page, each page once ('Quick
\* Quick fox' linking to 'fox jumps' gives quick 2, fox 2, jumps 1), and
\* during the crawl no count decreases.
C5_AggregateIsSum == []C5_Sum /\ [][C5_NoDecrease]_vars

-----------------------------------------------------------------------------
(* C6 *)

FetchErrors == {"err_send", "err_read"}

\* A step in which the fetch of a non-seed page fails leaves the caller's
\* frame with the counts it had and at its next link
C6_BranchLocal ==
    (\E r \in returned' \ returned : r.how \in FetchErrors /\ r.depth >= 1) =>
        /\ pc' = "crawl"
        /\ result' = result
        /\ Len(stack') = Len(stack)
        /\ stack'[Len(stack')].word_count = Top.word_count
        /\ stack'[Len(stack')] = Advance(Top)
        /\ \A k \in 1..(Len(stack) - 1) : stack'[k] = stack[k]

\* After a failed fetch of a non-seed page the crawl returns Ok, the
\* aggregate is the sum over the pages that were processed, and every page
\* processed at depth <= max_depth had every link in scope taken up
C6_CrawlGoesOn ==
    (Done /\ \E r \in returned : r.how \in FetchErrors /\ r.depth >= 1) =>
        /\ result.kind = "ok"
        /\ result.word_count = SumPages(SetToSeq(OkUrls))
        /\ \A r \in returned : r.how \in FetchErrors => r.url \notin OkUrls
        /\ \A r \in returned :
              (r.how = "ok" /\ r.depth <= config.max_depth) =>
                  \A l \in PageLinks(r.url) :
                      (l # << >> /\ InScope(l[1], r.url)) => l[1] \in visited_urls

\* C6: a fetch failure on a non-seed page contributes nothing, the parent
\* keeps its tokens, the remaining links of the parent and of all ancestors
\* are still processed, and the crawl returns Ok.
C6_FetchFailureIsBranchLocal == [][C6_BranchLocal]_vars /\ []C6_CrawlGoesOn

\* /down failed below /b, and /b went on to /t and returned
C6_Witness ==
    /\ Done
    /\ result.kind = "ok"
    /\ \E r \in returned : r.url = PageDown /\ r.how = "err_send" /\ r.depth >= 1
    /\ \E r \in returned : r.url = PageT /\ r.how = "ok"
    /\ \E r \in returned : r.url = PageB /\ r.how = "ok"

-----------------------------------------------------------------------------
(* C7 *)

\* Every word-frequency map of the crawl: the frames' and the result's
AllMaps == { stack[k].word_count : k \in 1..Len(stack) } \cup { result.word_count }

\* C7: every key of the aggregate is a lowercased token of ASCII letters
\* and apostrophes only, of length >= min_length, that is not in the
\* common-word set.
C7_KeysAreClean ==
    \A m \in AllMaps : \A w \in DOMAIN m :
        /\ \A k \in 1..Len(w) : w[k] \in Lowers \cup {Apostrophe}
        /\ Len(w) >= config.min_length
        /\ w \notin CommonWordSet

\* The hub page, with a common word, a token with a digit, a token with a
\* non-ASCII letter and a short token, has been counted
C7_Witness ==
    /\ Done
    /\ result.kind = "ok"
    /\ seed = Hub
    /\ the \in CommonWordSet
    /\ dont \in DOMAIN result.word_count

-----------------------------------------------------------------------------
(* C8 *)

Success(status) == status \in 200..299

\* C8: a page answered with a non-success status is a fetch failure: no
\* token of it is counted and none of its links is followed.
C8_NonSuccessIsFailure ==
    /\ \A k \in 1..Len(stack) :
          ~ Success(Fetch(stack[k].url).status) => stack[k].word_count = EmptyMap
    /\ \A k \in 1..Len(requests) :
          requests[k].base_url # << >> =>
              Success(Fetch(requests[k].base_url[1]).status)
    /\ \A url \in OkUrls : Success(Fetch(url).status)

-----------------------------------------------------------------------------
(* C9 *)

\* C9: when a page's processing fails to load the dictionary, whichever
\* page it is, unique_words_from_url returns an error.
C9_DictionaryFailureIsFatal ==
    (Done /\ \E r \in returned : r.how = "err_dict") => result.kind = "err"

-----------------------------------------------------------------------------
(* C10 *)

\* C10: every request carries the configured extra headers and, when a
\* user-agent is configured, that user-agent as its User-Agent header.
C10_HeadersAndAgentSent ==
    \A k \in 1..Len(requests) :
        /\ config.headers \subseteq requests[k].headers
        /\ config.user_agent # << >> =>
              << USER_AGENT, config.user_agent[1] >> \in requests[k].headers

-----------------------------------------------------------------------------
(* C19 *)

\* The string has no "Name: Value" shape with a valid name and value
Malformed(header) ==
    ~ \E k \in 1..Len(header) :
        /\ header[k] = ":"
        /\ HeaderName_ok(trim(SubSeq(header, 1, k - 1)))
        /\ HeaderValue_ok(trim(SubSeq(header, k + 1, Len(header))))

\* C19: a malformed custom header string is rejected at startup: the run
\* aborts, no URL enters the visited set and no fetch is attempted.
C19_MalformedHeaderAborts ==
    (\E k \in 1..Len(headers_arg) : Malformed(headers_arg[k])) =>
        /\ pc = "aborted"
        /\ visited_urls = {}
        /\ requests = << >>
        /\ stack = << >>
        /\ result = NoResult
        /\ report = NoReport

\* main was run with a valid header string followed by one with an invalid
\* name, and has exited
C19_Witness ==
    /\ pc = "aborted"
    /\ headers_arg = << HdrOk, HdrBadName >>

-----------------------------------------------------------------------------
(* C20 *)

\* C20: the report of a successful crawl lists exactly the (token, count)
\* pairs of the aggregate with count >= the threshold, each once, in
\* non-increasing order of count.
C20_ReportSortedAndFiltered ==
    report.written =>
        /\ result.kind = "ok"
        /\ \A k \in 1..Len(report.lines) :
              /\ report.lines[k].word \in DOMAIN result.word_count
              /\ report.lines[k].count = result.word_count[report.lines[k].word]
              /\ report.lines[k].count >= report.min_count
        /\ \A w \in DOMAIN result.word_count :
              result.word_count[w] >= report.min_count =>
                  Cardinality({ k \in 1..Len(report.lines) : report.lines[k].word = w }) = 1
        /\ \A k \in 1..Len(report.lines) : \A n \in 1..Len(report.lines) :
              k < n => report.lines[k].count >= report.lines[n].count
        /\ Cardinality({ report.lines[k].word : k \in 1..Len(report.lines) })
              = Len(report.lines)

\* A report with tokens of different counts, one of them below the
\* threshold, has been written
C20_Witness ==
    /\ pc = "exit"
    /\ report.written
    /\ report.min_count = 2
    /\ Len(report.lines) >= 2
    /\ report.lines[1].count > report.lines[Len(report.lines)].count
    /\ Len(report.lines) < Cardinality(DOMAIN result.word_count)

-----------------------------------------------------------------------------
(* C11 *)

\* C11: merging frequency maps by per-token addition is commutative and
\* associative.
C11_MergeCommutesAndAssociates ==
    /\ merge_test.stage >= 1 =>
          /\ merge_test.ab = merge_test.ba
          /\ \A w \in MergeTokens :
                Count(merge_test.ab, w) = Count(merge_test.a, w) + Count(merge_test.b, w)
    /\ merge_test.stage = 2 => merge_test.ab_c = merge_test.a_bc

\* Three maps with a shared token of different counts have been merged in
\* both groupings
C11_Witness ==
    /\ merge_test.stage = 2
    /\ fox \in DOMAIN merge_test.a \cap DOMAIN merge_test.b \cap DOMAIN merge_test.c
    /\ jumps \in DOMAIN merge_test.c \ DOMAIN merge_test.a
    /\ merge_test.a[fox] # merge_test.b[fox]
    /\ merge_test.ab_c[fox] = merge_test.a[fox] + merge_test.b[fox] + merge_test.c[fox]

-----------------------------------------------------------------------------
(* C12 *)

PageD == U("a.com", "/d", "")

\* C12: the links of a page fetched at depth d are followed only if
\* d <= max_depth, and then fetched at depth d + 1; every page is fetched at
\* a depth <= max_depth + 1 and a page at depth max_depth + 1 follows none
\* of its links.
C12_DepthBound ==
    /\ \A k \in 1..Len(stack) : stack[k].depth = k - 1
    /\ \A k \in 1..Len(requests) :
          /\ requests[k].depth <= config.max_depth + 1
          /\ requests[k].base_url = << >> => requests[k].depth = 0
          /\ requests[k].base_url # << >> =>
                \E n \in 1..(k - 1) :
                    /\ requests[n].url = requests[k].base_url[1]
                    /\ requests[n].depth + 1 = requests[k].depth
                    /\ requests[n].depth <= config.max_depth

\* /c was fetched at depth max_depth + 1 and processed, and its link to /d
\* was not followed
C12_Witness ==
    /\ Done
    /\ \E r \in returned :
          r.url = PageC /\ r.how = "ok" /\ r.depth = config.max_depth + 1
    /\ RequestsFor(PageD) = {}

-----------------------------------------------------------------------------
(* C13 *)

\* How often the token stands in the text of the page of the url
Occurrences(url, w) ==
    LET doc == Fetch(url).doc IN
    Cardinality({ nk \in UNION { { << n, k >> : k \in 1..Len(doc[n].words) } :
                                 n \in 1..Len(doc) } :
                    to_lowercase(doc[nk[1]].words[nk[2]]) = w })

RECURSIVE SumOccurrences(_, _)
SumOccurrences(urls, w) ==
    IF urls = << >> THEN 0
    ELSE Occurrences(Head(urls), w) + SumOccurrences(Tail(urls), w)

\* C13: each occurrence of a word in a page's text is counted at most once,
\* also when an allow-listed element is nested in another one.
C13_NoDoubleCount ==
    (Done /\ result.kind = "ok") =>
        \A w \in DOMAIN result.word_count :
            result.word_count[w] <= SumOccurrences(SetToSeq(OkUrls), w)

-----------------------------------------------------------------------------
(* C14 *)

\* The resolved links of all anchors with an href on the page of the url;
\* an anchor is itself an allow-listed element
AnchorLinks(url) ==
    LET doc == Fetch(url).doc IN
    { join(url, doc[n].href[1]) :
        n \in { k \in 1..Len(doc) : doc[k].tag = "a" /\ doc[k].href # << >> } }

\* C14: every anchor with an href that lies within a selected element or is
\* itself a selected element is a candidate link: on a page at depth
\* <= max_depth it is fetched if it is in scope and not visited before.
C14_EveryAnchorIsCandidate ==
    Done =>
        \A r \in returned :
            (r.how = "ok" /\ r.depth <= config.max_depth) =>
                \A l \in AnchorLinks(r.url) :
                    (l # << >> /\ InScope(l[1], r.url)) => l[1] \in visited_urls

-----------------------------------------------------------------------------
(* C15 *)

PageOrg == U("b.org", "/", "")
PageOrgX == U("b.org", "/x", "")

\* The frame on top of the stack is at a link whose href does not resolve
\* against the page's own URL
AtUnresolvableLink ==
    /\ pc = "crawl"
    /\ stack # << >>
    /\ Top.i <= Len(Top.elements)
    /\ Top.j >= 1
    /\ WithinDepth(Top.depth, config.max_depth)
    /\ join(Top.url, Top.doc[FrameLinks(Top)[Top.j]].href[1]) = << >>

\* C15: a link is fetched only as the resolution of an href against the URL
\* of the page that contains it, and only if it is in scope with respect to
\* that page's domain; an href that does not resolve is passed over: the
\* page's loop moves to its next link and nothing else changes.
C15_ResolvedAgainstContainingPage ==
    [][ /\ (stack # << >> /\ Len(requests') = Len(requests) + 1) =>
            LET rq == requests'[Len(requests')] IN
            /\ << rq.url >> \in PageLinks(Top.url)
            /\ InScope(rq.url, Top.url)
        /\ (AtUnresolvableLink /\ stack' # stack) =>
            /\ stack' = SetTop(stack, Advance(Top))
            /\ UNCHANGED << pc, result, visited_urls, requests, returned >>
      ]_vars

\* A relative link of an offsite page was fetched on that page's host, and
\* the seed page returned although it holds an unresolvable href
C15_Witness ==
    /\ Done
    /\ seed = Hub
    /\ result.kind = "ok"
    /\ \E k \in 1..Len(requests) :
          requests[k].url = PageOrgX /\ requests[k].base_url = << PageOrg >>
    /\ \E n \in 1..Len(HubDoc) :
          HubDoc[n].href # << >> /\ join(Hub, HubDoc[n].href[1]) = << >>

-----------------------------------------------------------------------------
(* C16 *)

\* The two URLs denote the same page: they differ at most in the fragment
SamePage(u, v) == u.host = v.host /\ u.path = v.path

\* C16: links that differ only in their fragment are deduplicated by the
\* visited set: a page is not fetched a second time through a link such as
\* href="#top".
C16_FragmentDeduplicated ==
    \A j, k \in 1..Len(requests) :
        SamePage(requests[j].url, requests[k].url) => j = k

-----------------------------------------------------------------------------
(* C17 *)

PageO1 == U("a.com", "/o1", "")
PageO4 == U("a.com", "/o4", "")

\* The pages the links of the page of the url lead to
LinkTargets(url) == { l[1] : l \in { x \in PageLinks(url) : x # << >> } }

\* The URLs reachable from the seed by a path of at most k links
RECURSIVE Reach(_)
Reach(k) ==
    IF k = 0 THEN { seed }
    ELSE LET near == Reach(k - 1) IN
         near \cup UNION { LinkTargets(u) : u \in near }

\* Every fetch in the part of the graph the crawl may reach succeeds, and
\* every link there resolves and is in scope
CleanGraph ==
    /\ seed # BadUrl
    /\ \A u \in Reach(config.max_depth + 1) :
          Fetch(u).sent /\ Fetch(u).readable
    /\ \A u \in Reach(config.max_depth) :
          \A l \in PageLinks(u) : l # << >> /\ InScope(l[1], u)

\* C17: in a link graph where every fetch succeeds and every link is in
\* scope, every URL reachable from the seed by at most max_depth + 1 links is
\* fetched, in whatever order the links appear on the pages.
C17_CoverageIndependentOfOrder ==
    (Done /\ CleanGraph /\ \A r \in returned : r.how = "ok") =>
        \A u \in Reach(config.max_depth + 1) : RequestsFor(u) # {}

-----------------------------------------------------------------------------
(* C18 *)

\* C18: with follow_offsite = false every URL in the visited set is on the
\* seed's domain, in every reachable state.
C18_VisitedOnSeedDomain ==
    (~ config.follow_offsite /\ seed # BadUrl) =>
        \A u \in visited_urls : ~ Offsite(u, seed)

====
